---- MODULE Spec2Model ----
(***************************************************************************)
(* Model of pyqode.core._internal.client: the JSON/TCP client socket       *)
(* (JsonTcpClient) and the worker process wrapper (ServerProcess).         *)
(*                                                                         *)
(* Bytes are integers 0..255, byte strings are sequences of them.  JSON    *)
(* values are records [t, n, s, kv]: t is the Python type of the value,    *)
(* n the number of an int (or 0/1 of a bool), s the characters of a str,   *)
(* kv the items of a dict in insertion order, each <<key, value>>.         *)
(***************************************************************************)
EXTENDS Integers, Sequences, FiniteSets, TLC

\* ------------------------------------------------------------------ bounds

\* Most frames the worker writes to the stream in one run.
MaxFrames == 2
\* Most requests the application issues in one run.
MaxRequests == 2
\* Most calls of start() in one run.
MaxStarts == 2
\* Most connect attempts that end in an error, in the lifecycle runs.
MaxRefusals == 2
\* Most chunks read from the worker's output in one run, and the most bytes of
\* one chunk.
MaxChunks == 3
MaxChunkLen == 2

\* ------------------------------------------------------- program constants

MAX_RETRY == 100

\* --------------------------------------------------------------- characters

\* Code points of the characters the JSON texts of the model are made of.
Ch == [lbrace |-> 123, rbrace |-> 125, quote |-> 34, colon |-> 58, comma |-> 44,
       space |-> 32, zero |-> 48, nine |-> 57, backslash |-> 92,
       dot |-> 46, minus |-> 45, lbracket |-> 91, rbracket |-> 93,
       slash |-> 47, u |-> 117, nl |-> 10, cr |-> 13]

Whitespace == {32, 9, 10, 13}

K_request_id == <<114, 101, 113, 117, 101, 115, 116, 95, 105, 100>>
K_results == <<114, 101, 115, 117, 108, 116, 115>>
K_status == <<115, 116, 97, 116, 117, 115>>
K_worker == <<119, 111, 114, 107, 101, 114>>
K_data == <<100, 97, 116, 97>>
S_shutdown == <<115, 104, 117, 116, 100, 111, 119, 110>>
S_true == <<116, 114, 117, 101>>
S_false == <<102, 97, 108, 115, 101>>
S_null == <<110, 117, 108, 108>>

\* -------------------------------------------------------------- JSON values

JInt(n) == [t |-> "int", n |-> n, s |-> <<>>, kv |-> <<>>]
JStr(s) == [t |-> "str", n |-> 0, s |-> s, kv |-> <<>>]
JBool(b) == [t |-> "bool", n |-> IF b THEN 1 ELSE 0, s |-> <<>>, kv |-> <<>>]
JNull == [t |-> "null", n |-> 0, s |-> <<>>, kv |-> <<>>]
JDict(kv) == [t |-> "dict", n |-> 0, s |-> <<>>, kv |-> kv]
\* A list and a tuple hold their items in kv, each under the empty key.
RECURSIVE Items(_)
Items(vs) == IF vs = <<>> THEN <<>> ELSE << <<<<>>, Head(vs)>> >> \o Items(Tail(vs))
JList(vs) == [t |-> "list", n |-> 0, s |-> <<>>, kv |-> Items(vs)]
JTuple(vs) == [t |-> "tuple", n |-> 0, s |-> <<>>, kv |-> Items(vs)]

Take(b, n) == SubSeq(b, 1, IF n < Len(b) THEN n ELSE Len(b))
Drop(b, n) == SubSeq(b, (IF n < Len(b) THEN n ELSE Len(b)) + 1, Len(b))

\* The position of key k among the items of a dict, 0 when it has no such key.
KeyIndex(kv, k) ==
    IF \E i \in 1..Len(kv) : kv[i][1] = k
    THEN CHOOSE i \in 1..Len(kv) : kv[i][1] = k
    ELSE 0

\* d[k] = v of a Python dict: a new key goes last, a known key keeps its place.
DictSet(kv, k, v) ==
    IF KeyIndex(kv, k) = 0
    THEN Append(kv, <<k, v>>)
    ELSE [kv EXCEPT ![KeyIndex(kv, k)] = <<k, v>>]

\* ------------------------------------------------------------- json.dumps

\* str(n) of an int.
RECURSIVE IntToDigits(_)
IntToDigits(n) ==
    IF n < 0 THEN <<Ch.minus>> \o IntToDigits(0 - n)
    ELSE IF n < 10 THEN <<Ch.zero + n>>
    ELSE Append(IntToDigits(n \div 10), Ch.zero + (n % 10))

\* The escapes of one letter: the character, and the letter after the '\'.
Escapes == {<<34, 34>>, <<92, 92>>, <<10, 110>>, <<13, 114>>, <<9, 116>>,
            <<8, 98>>, <<12, 102>>}

\* One hexadecimal digit, lower case, and the four of a code point below 65536.
HexDigit(d) == IF d < 10 THEN Ch.zero + d ELSE 97 + (d - 10)
Hex4(c) == <<HexDigit((c \div 4096) % 16), HexDigit((c \div 256) % 16),
             HexDigit((c \div 16) % 16), HexDigit(c % 16)>>

\* A character of a string as json.dumps writes it (ensure_ascii): escaped
\* when it is '"', '\', a control character or not ASCII.
EscapeChar(c) ==
    IF \E e \in Escapes : e[1] = c
    THEN <<Ch.backslash, (CHOOSE e \in Escapes : e[1] = c)[2]>>
    ELSE IF c < 32 \/ c > 126 THEN <<Ch.backslash, Ch.u>> \o Hex4(c)
    ELSE <<c>>

RECURSIVE EscapeStr(_)
EscapeStr(str) ==
    IF str = <<>> THEN <<>> ELSE EscapeChar(Head(str)) \o EscapeStr(Tail(str))

RECURSIVE Dumps(_)
RECURSIVE DumpItems(_, _)
DumpItems(kv, i) ==
    IF i > Len(kv) THEN <<>>
    ELSE (IF i > 1 THEN <<Ch.comma, Ch.space>> ELSE <<>>)
         \o <<Ch.quote>> \o EscapeStr(kv[i][1]) \o <<Ch.quote, Ch.colon, Ch.space>>
         \o Dumps(kv[i][2]) \o DumpItems(kv, i + 1)

\* The items of a list or a tuple, from item i on.
RECURSIVE DumpElements(_, _)
DumpElements(kv, i) ==
    IF i > Len(kv) THEN <<>>
    ELSE (IF i > 1 THEN <<Ch.comma, Ch.space>> ELSE <<>>)
         \o Dumps(kv[i][2]) \o DumpElements(kv, i + 1)

\* json.dumps(obj) with its default separators ', ' and ': ': a tuple is
\* written as a list is.
Dumps(v) ==
    CASE v.t = "int" -> IntToDigits(v.n)
      [] v.t = "str" -> <<Ch.quote>> \o EscapeStr(v.s) \o <<Ch.quote>>
      [] v.t = "bool" -> IF v.n = 1 THEN S_true ELSE S_false
      [] v.t = "null" -> S_null
      [] v.t = "dict" -> <<Ch.lbrace>> \o DumpItems(v.kv, 1) \o <<Ch.rbrace>>
      [] v.t \in {"list", "tuple"} ->
            <<Ch.lbracket>> \o DumpElements(v.kv, 1) \o <<Ch.rbracket>>

\* ------------------------------------------------------------- json.loads

\* A parse result: ok, the value, and the position after it.
PFail == [ok |-> FALSE, v |-> JNull, i |-> 0]
POk(v, i) == [ok |-> TRUE, v |-> v, i |-> i]

RECURSIVE SkipWs(_, _)
SkipWs(b, i) ==
    IF i <= Len(b) /\ b[i] \in Whitespace THEN SkipWs(b, i + 1) ELSE i

IsDigit(c) == c >= Ch.zero /\ c <= Ch.nine

HasAt(b, i, w) ==
    /\ i + Len(w) - 1 <= Len(b)
    /\ SubSeq(b, i, i + Len(w) - 1) = w

\* The end of a run of digits that starts at i (the position after the last).
RECURSIVE DigitsEnd(_, _)
DigitsEnd(b, i) ==
    IF i <= Len(b) /\ IsDigit(b[i]) THEN DigitsEnd(b, i + 1) ELSE i

RECURSIVE DigitsValue(_, _, _, _)
DigitsValue(b, i, j, acc) ==
    IF i >= j THEN acc
    ELSE DigitsValue(b, i + 1, j, acc * 10 + (b[i] - Ch.zero))

\* A number whose first digit is at i: 0, or a non-zero digit followed by
\* digits.  A digit after a leading 0 is left for the caller, which then finds
\* extra data.  Fractions and exponents are outside the texts of the model:
\* they fail.
ParseInt(b, i) ==
    LET j == IF b[i] = Ch.zero THEN i + 1 ELSE DigitsEnd(b, i)
    IN IF j <= Len(b) /\ b[j] \in {Ch.dot, 101, 69}
       THEN PFail
       ELSE POk(JInt(DigitsValue(b, i, j, 0)), j)

\* A number with a '-' at i.
ParseNegInt(b, i) ==
    IF i + 1 > Len(b) \/ ~IsDigit(b[i + 1]) THEN PFail
    ELSE LET r == ParseInt(b, i + 1)
         IN IF r.ok THEN POk(JInt(0 - r.v.n), r.i) ELSE PFail

\* The value of a hexadecimal digit, -1 when the character is none.
HexValue(c) ==
    IF IsDigit(c) THEN c - Ch.zero
    ELSE IF c >= 97 /\ c <= 102 THEN c - 87
    ELSE IF c >= 65 /\ c <= 70 THEN c - 55
    ELSE 0 - 1

\* The characters of a string from position i to its closing quote, after the
\* characters acc.  A control character fails, and so does an escape that is
\* not \", \\, \/, \b, \f, \n, \r, \t or \u with four hexadecimal digits.
\* Surrogate pairs are outside the texts of the model.
RECURSIVE ParseChars(_, _, _)
ParseChars(b, i, acc) ==
    IF i > Len(b) THEN PFail
    ELSE IF b[i] = Ch.quote THEN POk(JStr(acc), i + 1)
    ELSE IF b[i] < 32 THEN PFail
    ELSE IF b[i] # Ch.backslash THEN ParseChars(b, i + 1, Append(acc, b[i]))
    ELSE IF i + 1 > Len(b) THEN PFail
    ELSE IF b[i + 1] = Ch.slash THEN ParseChars(b, i + 2, Append(acc, Ch.slash))
    ELSE IF \E e \in Escapes : e[2] = b[i + 1]
    THEN ParseChars(b, i + 2,
                    Append(acc, (CHOOSE e \in Escapes : e[2] = b[i + 1])[1]))
    ELSE IF b[i + 1] = Ch.u /\ i + 5 <= Len(b)
            /\ \A k \in 2..5 : HexValue(b[i + k]) >= 0
    THEN ParseChars(b, i + 6,
                    Append(acc, 4096 * HexValue(b[i + 2]) + 256 * HexValue(b[i + 3])
                                + 16 * HexValue(b[i + 4]) + HexValue(b[i + 5])))
    ELSE PFail

\* A string whose opening quote is at i.
ParseString(b, i) == ParseChars(b, i + 1, <<>>)

RECURSIVE ParseValue(_, _)
RECURSIVE ParseItems(_, _, _)
RECURSIVE ParseElements(_, _, _)

\* The items of an array after its '[' or after a ',': i is at a value.
ParseElements(b, i, vs) ==
    LET val == ParseValue(b, i)
    IN IF ~val.ok THEN PFail
       ELSE LET e == SkipWs(b, val.i)
            IN IF e > Len(b) THEN PFail
               ELSE IF b[e] = Ch.rbracket
               THEN POk(JList(Append(vs, val.v)), e + 1)
               ELSE IF b[e] = Ch.comma
               THEN ParseElements(b, SkipWs(b, e + 1), Append(vs, val.v))
               ELSE PFail

\* The items of an object after its '{' or after a ',': i is at a key.
ParseItems(b, i, kv) ==
    IF i > Len(b) \/ b[i] # Ch.quote THEN PFail
    ELSE LET k == ParseString(b, i)
         IN IF ~k.ok THEN PFail
            ELSE LET c == SkipWs(b, k.i)
                 IN IF c > Len(b) \/ b[c] # Ch.colon THEN PFail
                    ELSE LET val == ParseValue(b, SkipWs(b, c + 1))
                         IN IF ~val.ok THEN PFail
                            ELSE LET e == SkipWs(b, val.i)
                                     kv2 == DictSet(kv, k.v.s, val.v)
                                 IN IF e > Len(b) THEN PFail
                                    ELSE IF b[e] = Ch.rbrace
                                    THEN POk(JDict(kv2), e + 1)
                                    ELSE IF b[e] = Ch.comma
                                    THEN ParseItems(b, SkipWs(b, e + 1), kv2)
                                    ELSE PFail

ParseValue(b, i) ==
    IF i > Len(b) THEN PFail
    ELSE IF b[i] = Ch.quote THEN ParseString(b, i)
    ELSE IF IsDigit(b[i]) THEN ParseInt(b, i)
    ELSE IF b[i] = Ch.minus THEN ParseNegInt(b, i)
    ELSE IF HasAt(b, i, S_true) THEN POk(JBool(TRUE), i + 4)
    ELSE IF HasAt(b, i, S_false) THEN POk(JBool(FALSE), i + 5)
    ELSE IF HasAt(b, i, S_null) THEN POk(JNull, i + 4)
    ELSE IF b[i] = Ch.lbrace
    THEN LET j == SkipWs(b, i + 1)
         IN IF j <= Len(b) /\ b[j] = Ch.rbrace
            THEN POk(JDict(<<>>), j + 1)
            ELSE ParseItems(b, j, <<>>)
    ELSE IF b[i] = Ch.lbracket
    THEN LET j == SkipWs(b, i + 1)
         IN IF j <= Len(b) /\ b[j] = Ch.rbracket
            THEN POk(JList(<<>>), j + 1)
            ELSE ParseElements(b, j, <<>>)
    ELSE PFail

\* json.loads(text): the value, or a failure (ValueError) when the text is not
\* one JSON value with nothing but whitespace around it.
Loads(b) ==
    LET r == ParseValue(b, SkipWs(b, 1))
    IN IF r.ok /\ SkipWs(b, r.i) > Len(b) THEN r ELSE PFail

\* bytes.decode('utf-8') of the byte strings of the model, whose only byte
\* above 127 is 0xFF, which no UTF-8 text holds: it fails on such a byte, and
\* maps every other byte to the character of the same code.
Utf8Ok(b) == \A i \in 1..Len(b) : b[i] < 128

\* ------------------------------------------- str.rfind, slices, splitlines

\* The line boundaries of str.splitlines that the output of the model holds:
\* "\n", "\r", and "\r\n" as one.
LineEnds == {Ch.nl, Ch.cr}

\* text.rfind(c): the highest index (from 0) of c in text, -1 when there is none.
RFind(text, c) ==
    IF \E i \in 1..Len(text) : text[i] = c
    THEN (CHOOSE i \in 1..Len(text) :
             text[i] = c /\ \A j \in (i + 1)..Len(text) : text[j] # c) - 1
    ELSE 0 - 1

\* text[:n]: a negative n counts from the end.
SliceTo(text, n) ==
    LET stop == IF n < 0 THEN Len(text) + n ELSE n
    IN IF stop <= 0 THEN <<>>
       ELSE IF stop >= Len(text) THEN text
       ELSE SubSeq(text, 1, stop)

\* text.splitlines(): the lines without their boundaries; no empty last line
\* after a final boundary.
RECURSIVE SplitLines(_)
SplitLines(text) ==
    IF text = <<>> THEN <<>>
    ELSE IF \A i \in 1..Len(text) : text[i] \notin LineEnds THEN <<text>>
    ELSE LET i == CHOOSE k \in 1..Len(text) :
                     /\ text[k] \in LineEnds
                     /\ \A j \in 1..(k - 1) : text[j] \notin LineEnds
             skip == IF text[i] = Ch.cr /\ i < Len(text) /\ text[i + 1] = Ch.nl
                     THEN i + 1 ELSE i
         IN <<SubSeq(text, 1, i - 1)>>
            \o SplitLines(SubSeq(text, skip + 1, Len(text)))

\* ------------------------------------------------------ struct.pack/unpack

\* struct.pack('=I', n): four bytes, native order (little-endian here).
Pack(n) == <<n % 256, (n \div 256) % 256, (n \div 65536) % 256,
             (n \div 16777216) % 256>>

\* struct.unpack('=I', b)[0]
Unpack(b) == b[1] + 256 * b[2] + 65536 * b[3] + 16777216 * b[4]

\* A frame as send() writes it: the header, then the payload.
Frame(payload) == Pack(Len(payload)) \o payload

\* The byte stream of frames with these payloads.
RECURSIVE Stream(_)
Stream(payloads) ==
    IF payloads = <<>> THEN <<>>
    ELSE Frame(Head(payloads)) \o Stream(Tail(payloads))

\* The payloads of the frames a byte stream is made of, as its receiver cuts
\* it by the headers.
RECURSIVE Frames(_)
Frames(b) ==
    IF Len(b) < 4 THEN <<>>
    ELSE <<SubSeq(b, 5, 4 + Unpack(b))>> \o Frames(Drop(b, 4 + Unpack(b)))

\* ---------------------------------------------------------------- state

VARIABLES
    \* JsonTcpClient's fields
    header_complete,      \* _header_complete
    header_buf,           \* _header_buf
    to_read,              \* _to_read
    data_buf,             \* _data_buf
    callbacks,            \* _callbacks: items <<request_id, callback>>
    is_connected,         \* is_connected
    process,              \* _process: 0 is None, else an index into procs
    connection_attempts,  \* _connection_attempts
    port,                 \* _port
    \* the ServerProcess objects created so far, each
    \* [state: the QProcess state, running: its running field, port: its argv]
    procs,
    \* the socket and the event loop
    sock,                 \* "unconnected", "connecting" or "connected"
    peer_port,            \* the port of the last connectToHost that took effect
    timers,               \* pending QTimer.singleShot(..., self._connect)
    wire,                 \* bytes the worker has written, not yet at the client
    sock_buf,             \* bytes at the client the handler has not read
    tx,                   \* bytes the client has written, in order
    next_uuid,            \* how many uuid4() values have been drawn
    \* what the run has shown so far
    sent,                 \* payloads of the frames the worker has written
    decoded,              \* payloads logged as 'response received', in order
    invoked,              \* callback calls: [cb, status, results, at]
    registered,           \* items <<request_id, callback>> ever stored
    raised,               \* the exception the last call or handler ended with
    last_op,              \* the last call or handler that ran
    last_log,             \* the error reports the last call or handler logged
    read_sizes,           \* "none", "bytewise" (every read was one byte), "other"
    starts,               \* calls of start() that passed its assertion
    attempts_this_start,  \* connect attempts since the last such start()
    split_read,           \* some read delivered less than was in flight
    effects,              \* what the last call or handler did to the process,
                          \* the socket and the port, in order: <<what, arg>>
    srv_out,              \* chunks read from the worker's output: <<stream, chunk>>
    srv_log,              \* records given to the server logger: <<level, line>>
    sent_objs,            \* the objects given to send() by the application
    closed,               \* close() has returned, and no start() passed its
                          \* assertion since
    bytes_read            \* the bytes read() has returned to _on_ready_read

clientVars == <<header_complete, header_buf, to_read, data_buf, callbacks,
                is_connected, process, connection_attempts, port>>
envVars == <<procs, sock, peer_port, timers, wire, sock_buf, tx, next_uuid>>
histVars == <<sent, decoded, invoked, registered, raised, last_op, last_log,
              read_sizes, starts, attempts_this_start, split_read, effects,
              srv_out, srv_log, sent_objs, closed, bytes_read>>
vars == <<clientVars, envVars, histVars>>

\* JsonTcpClient.__init__ (and no ServerProcess yet).
Init ==
    /\ header_complete = FALSE
    /\ header_buf = <<>>
    /\ to_read = 0
    /\ data_buf = <<>>
    /\ callbacks = <<>>
    /\ is_connected = FALSE
    /\ process = 0
    /\ connection_attempts = 0
    /\ port = -1
    /\ procs = <<>>
    /\ sock = "unconnected"
    /\ peer_port = -1
    /\ timers = 0
    /\ wire = <<>>
    /\ sock_buf = <<>>
    /\ tx = <<>>
    /\ next_uuid = 0
    /\ sent = <<>>
    /\ decoded = <<>>
    /\ invoked = <<>>
    /\ registered = <<>>
    /\ raised = "none"
    /\ last_op = "__init__"
    /\ last_log = {}
    /\ read_sizes = "none"
    /\ split_read = FALSE
    /\ effects = <<>>
    /\ srv_out = <<>>
    /\ srv_log = <<>>
    /\ sent_objs = <<>>
    /\ closed = FALSE
    /\ bytes_read = 0
    /\ starts = 0
    /\ attempts_this_start = 0

\* ------------------------------------------------------- _on_ready_read

\* d.pop(k) of a dict held as items.
DictPop(kv, k) ==
    SubSeq(kv, 1, KeyIndex(kv, k) - 1) \o SubSeq(kv, KeyIndex(kv, k) + 1, Len(kv))

DictGet(kv, k) == kv[KeyIndex(kv, k)][2]

\* Whether obj['request_id'], obj['results'] and obj['status'] all succeed: obj
\* is a dict with the three keys.  Anything else raises TypeError or KeyError.
HasResponseKeys(obj) ==
    /\ obj.t = "dict"
    /\ KeyIndex(obj.kv, K_request_id) # 0
    /\ KeyIndex(obj.kv, K_results) # 0
    /\ KeyIndex(obj.kv, K_status) # 0

\* Dispatch that calls the callback and leaves it in _callbacks.
Dispatch_NoPop(c, obj) ==
    IF ~HasResponseKeys(obj) THEN c
    ELSE LET request_id == DictGet(obj.kv, K_request_id)
         IN IF request_id.t \in {"dict", "list"}
            THEN [c EXCEPT !.raised = "TypeError"]
            ELSE IF request_id.t = "str" /\ KeyIndex(c.cbs, request_id.s) # 0
            THEN [c EXCEPT
                    !.invoked = Append(c.invoked,
                        [cb |-> DictGet(c.cbs, request_id.s),
                         status |-> DictGet(obj.kv, K_status),
                         results |-> DictGet(obj.kv, K_results),
                         at |-> Len(c.decoded)])]
            ELSE c

\* Dispatch that gives a response to the oldest pending callback, whatever
\* the identifier it was stored under.
Dispatch_Fifo(c, obj) ==
    IF ~HasResponseKeys(obj) THEN c
    ELSE LET request_id == DictGet(obj.kv, K_request_id)
         IN IF request_id.t \in {"dict", "list"}
            THEN [c EXCEPT !.raised = "TypeError"]
            ELSE IF request_id.t = "str" /\ KeyIndex(c.cbs, request_id.s) # 0
            THEN [c EXCEPT
                    !.cbs = Tail(c.cbs),
                    !.invoked = Append(c.invoked,
                        [cb |-> c.cbs[1][2],
                         status |-> DictGet(obj.kv, K_status),
                         results |-> DictGet(obj.kv, K_results),
                         at |-> Len(c.decoded)])]
            ELSE c

\* Dispatch without the except clause: a message that lacks a key raises.
Dispatch_NoExcept(c, obj) ==
    IF ~HasResponseKeys(obj)
    THEN [c EXCEPT !.raised = IF obj.t = "dict" THEN "KeyError" ELSE "TypeError"]
    ELSE LET request_id == DictGet(obj.kv, K_request_id)
         IN IF request_id.t \in {"dict", "list"}
            THEN [c EXCEPT !.raised = "TypeError"]
            ELSE IF request_id.t = "str" /\ KeyIndex(c.cbs, request_id.s) # 0
            THEN [c EXCEPT
                    !.cbs = DictPop(c.cbs, request_id.s),
                    !.invoked = Append(c.invoked,
                        [cb |-> DictGet(c.cbs, request_id.s),
                         status |-> DictGet(obj.kv, K_status),
                         results |-> DictGet(obj.kv, K_results),
                         at |-> Len(c.decoded)])]
            ELSE c

\* Lines 315-325 on decoder state c, for the decoded object obj.  A str
\* request_id that is a key of _callbacks pops and calls its callback; a dict or
\* list request_id is unhashable and 'in' raises TypeError; any other is no key.
Dispatch(c, obj) ==
    IF ~HasResponseKeys(obj) THEN c
    ELSE LET request_id == DictGet(obj.kv, K_request_id)
             results == DictGet(obj.kv, K_results)
             status == DictGet(obj.kv, K_status)
         IN IF request_id.t \in {"dict", "list"}
            THEN [c EXCEPT !.raised = "TypeError"]
            ELSE IF request_id.t = "str" /\ KeyIndex(c.cbs, request_id.s) # 0
            THEN [c EXCEPT
                    !.cbs = DictPop(c.cbs, request_id.s),
                    !.invoked = Append(c.invoked,
                        [cb |-> DictGet(c.cbs, request_id.s), status |-> status,
                         results |-> results, at |-> Len(c.decoded)])]
            ELSE c

\* _on_ready_read with 'if' for 'while' after a message: it returns once one
\* message has been dispatched, whatever is still to read.
RECURSIVE ReadLoop_OneFrame(_)
ReadLoop_OneFrame(c) ==
    IF c.buf = <<>> THEN c
    ELSE IF ~c.hc
    THEN LET hb == c.hb \o Take(c.buf, 4)
             c1 == [c EXCEPT !.hb = hb, !.buf = Drop(c.buf, 4)]
         IN IF Len(hb) = 4
            THEN ReadLoop_OneFrame([c1 EXCEPT !.hc = TRUE, !.tr = Unpack(hb),
                                              !.hb = <<>>])
            ELSE ReadLoop_OneFrame(c1)
    ELSE IF c.tr < 0 THEN [c EXCEPT !.raised = "ValueError:read"]
    ELSE LET db == c.db \o Take(c.buf, c.tr)
             c1 == [c EXCEPT !.db = db, !.buf = Drop(c.buf, c.tr),
                             !.tr = c.tr - Len(db)]
         IN IF c1.tr # 0 THEN ReadLoop_OneFrame(c1)
            ELSE IF ~Utf8Ok(db) THEN [c1 EXCEPT !.raised = "UnicodeDecodeError"]
            ELSE IF ~Loads(db).ok THEN [c1 EXCEPT !.raised = "ValueError:json"]
            ELSE LET c2 == Dispatch([c1 EXCEPT !.decoded = Append(c1.decoded, db)],
                                    Loads(db).v)
                 IN IF c2.raised # "none" THEN c2
                    ELSE [c2 EXCEPT !.hc = FALSE, !.db = <<>>]

\* The while loop of _on_ready_read on decoder state c, whose buf is what
\* bytesAvailable() counts.  It ends when buf is empty or a statement raises.
\* QIODevice.read(n) gives at most n bytes, and raises ValueError for n < 0.
RECURSIVE ReadLoop(_)
ReadLoop(c) ==
    IF c.buf = <<>> THEN c
    ELSE IF ~c.hc
    THEN LET hb == c.hb \o Take(c.buf, 4)
             c1 == [c EXCEPT !.hb = hb, !.buf = Drop(c.buf, 4)]
         IN IF Len(hb) = 4
            THEN ReadLoop([c1 EXCEPT !.hc = TRUE, !.tr = Unpack(hb), !.hb = <<>>])
            ELSE ReadLoop(c1)
    ELSE IF c.tr < 0 THEN [c EXCEPT !.raised = "ValueError:read"]
    ELSE LET db == c.db \o Take(c.buf, c.tr)
             c1 == [c EXCEPT !.db = db, !.buf = Drop(c.buf, c.tr),
                             !.tr = c.tr - Len(db)]
         IN IF c1.tr # 0 THEN ReadLoop(c1)
            ELSE IF ~Utf8Ok(db) THEN [c1 EXCEPT !.raised = "UnicodeDecodeError"]
            ELSE IF ~Loads(db).ok THEN [c1 EXCEPT !.raised = "ValueError:json"]
            ELSE LET c2 == Dispatch([c1 EXCEPT !.decoded = Append(c1.decoded, db)],
                                    Loads(db).v)
                 IN IF c2.raised # "none" THEN c2
                    ELSE ReadLoop([c2 EXCEPT !.hc = FALSE, !.db = <<>>])

\* The decoder part of the client's state, with buf to read.
Decoder(buf) ==
    [hc |-> header_complete, hb |-> header_buf, tr |-> to_read, db |-> data_buf,
     buf |-> buf, cbs |-> callbacks, decoded |-> decoded, invoked |-> invoked,
     raised |-> "none"]

\* A decoder as __init__ leaves it, with buf to read and no callback stored.
FreshDecoder(buf) ==
    [hc |-> FALSE, hb |-> <<>>, tr |-> 0, db |-> <<>>, buf |-> buf,
     cbs |-> <<>>, decoded |-> <<>>, invoked |-> <<>>, raised |-> "none"]

\* readyRead: n more bytes reach the socket, and _on_ready_read runs.
ReadyRead(n) ==
    /\ sock = "connected"
    /\ n >= 1 /\ n <= Len(wire)
    /\ \E c \in {ReadLoop(Decoder(sock_buf \o Take(wire, n)))} :
          /\ header_complete' = c.hc
          /\ header_buf' = c.hb
          /\ to_read' = c.tr
          /\ data_buf' = c.db
          /\ callbacks' = c.cbs
          /\ sock_buf' = c.buf
          /\ decoded' = c.decoded
          /\ invoked' = c.invoked
          /\ raised' = c.raised
          /\ effects' = << <<"decoded", Len(c.decoded) - Len(decoded)>> >>
          /\ bytes_read' = bytes_read + Len(sock_buf) + n - Len(c.buf)
    /\ wire' = Drop(wire, n)
    /\ last_log' = {}
    /\ last_op' = "_on_ready_read"
    /\ read_sizes' = IF n = 1 /\ read_sizes # "other" THEN "bytewise" ELSE "other"
    /\ split_read' = (split_read \/ n < Len(wire))
    /\ UNCHANGED <<is_connected, process, connection_attempts, port, procs, sock,
                   peer_port, timers, tx, next_uuid, sent, registered, starts,
                   attempts_this_start, srv_out, srv_log, sent_objs, closed>>

\* ------------------------------------------------------------ the worker

\* The ports _pick_free_port may return.
FreePorts == {49152, 49153}

\* A process is listening on the port the socket is connecting to.
WorkerListening ==
    \E i \in 1..Len(procs) : procs[i].state = "running" /\ procs[i].port = peer_port

\* The worker writes one frame with this payload.
WorkerWrites(payload) ==
    /\ sock = "connected"
    /\ Len(sent) < MaxFrames
    /\ wire' = wire \o Frame(payload)
    /\ sent' = Append(sent, payload)
    /\ UNCHANGED <<clientVars, procs, sock, peer_port, timers, sock_buf, tx,
                   next_uuid, decoded, invoked, registered, raised, last_op,
                   last_log, read_sizes, starts, attempts_this_start, split_read,
                   effects, srv_out, srv_log, sent_objs, closed, bytes_read>>

\* -------------------------------------------------------- JsonTcpClient

\* What one output handler gives to the server logger for a chunk, at its
\* level: the lines of the chunk cut at its last "\n"; nothing when the chunk
\* is no UTF-8 and decode raises.
Logged(level, chunk) ==
    IF Utf8Ok(chunk)
    THEN LET lines == SplitLines(SliceTo(chunk, RFind(chunk, Ch.nl)))
         IN [k \in 1..Len(lines) |-> <<level, lines[k]>>]
    ELSE <<>>

\* The same for chunks that arrive one after the other, each <<level, chunk>>.
RECURSIVE LoggedAll(_)
LoggedAll(outs) ==
    IF outs = <<>> THEN <<>>
    ELSE Logged(Head(outs)[1], Head(outs)[2]) \o LoggedAll(Tail(outs))

\* _on_process_stdout_ready and _on_process_stderr_ready of process i, which
\* differ in the level they log at: the chunk readAll returns is decoded, cut
\* at its last "\n" by output[:output.rfind('\n')], and each line of what is
\* left is given to the server logger.
OutputReady(op, level, i, chunk) ==
    /\ procs[i].state = "running"
    /\ Len(srv_out) < MaxChunks
    /\ srv_out' = Append(srv_out, <<level, chunk>>)
    /\ IF Utf8Ok(chunk)
       THEN /\ \E lines \in {SplitLines(SliceTo(chunk, RFind(chunk, Ch.nl)))} :
                 srv_log' = srv_log \o [k \in 1..Len(lines) |-> <<level, lines[k]>>]
            /\ raised' = "none"
       ELSE /\ srv_log' = srv_log
            /\ raised' = "UnicodeDecodeError"
    /\ last_op' = op
    /\ last_log' = {}
    /\ effects' = <<>>
    /\ UNCHANGED <<clientVars, envVars, sent, decoded, invoked, registered,
                   read_sizes, starts, attempts_this_start, split_read,
                   sent_objs, closed, bytes_read>>

\* readyReadStandardOutput of process i with this chunk.
StdoutReady(i, chunk) == OutputReady("_on_process_stdout_ready", "debug", i, chunk)

\* readyReadStandardError of process i with this chunk.
StderrReady(i, chunk) == OutputReady("_on_process_stderr_ready", "error", i, chunk)

\* start that picks the port before it looks at the script.
Start_PortBeforeAssert(exists, p) ==
    /\ starts < MaxStarts
    /\ last_log' = {}
    /\ last_op' = "start"
    /\ port' = p
    /\ IF ~exists
       THEN /\ raised' = "AssertionError"
            /\ effects' = << <<"_pick_free_port", p>> >>
            /\ UNCHANGED <<process, procs, starts, attempts_this_start, closed>>
       ELSE /\ raised' = "none"
            /\ effects' = << <<"_pick_free_port", p>>,
                             <<"ServerProcess", Len(procs) + 1>>,
                             <<"process.start", p>> >>
            /\ procs' = Append(procs, [state |-> "starting", running |-> FALSE,
                                       port |-> p])
            /\ process' = Len(procs) + 1
            /\ starts' = starts + 1
            /\ attempts_this_start' = 0
            /\ closed' = FALSE
    /\ UNCHANGED <<header_complete, header_buf, to_read, data_buf, callbacks,
                   is_connected, connection_attempts, sock, peer_port, timers,
                   wire, sock_buf, tx, next_uuid, sent, decoded, invoked,
                   registered, read_sizes, split_read, srv_out, srv_log,
                   sent_objs, bytes_read>>

\* start(server_script, ...): exists is os.path.exists(server_script), p the
\* port _pick_free_port returns.
Start(exists, p) ==
    /\ starts < MaxStarts
    /\ last_log' = {}
    /\ last_op' = "start"
    /\ IF ~exists
       THEN /\ raised' = "AssertionError"
            /\ effects' = <<>>
            /\ UNCHANGED <<process, port, procs, starts, attempts_this_start,
                           closed>>
       ELSE /\ raised' = "none"
            /\ effects' = << <<"ServerProcess", Len(procs) + 1>>,
                             <<"_pick_free_port", p>>,
                             <<"process.start", p>> >>
            /\ procs' = Append(procs, [state |-> "starting", running |-> FALSE,
                                       port |-> p])
            /\ process' = Len(procs) + 1
            /\ port' = p
            /\ starts' = starts + 1
            /\ attempts_this_start' = 0
            /\ closed' = FALSE
    /\ UNCHANGED <<header_complete, header_buf, to_read, data_buf, callbacks,
                   is_connected, connection_attempts, sock, peer_port, timers,
                   wire, sock_buf, tx, next_uuid, sent, decoded, invoked,
                   registered, read_sizes, split_read, srv_out, srv_log,
                   sent_objs, bytes_read>>

\* The started signal of process i: ServerProcess._on_process_started, then
\* JsonTcpClient._on_process_started, which arms the timer of _connect.
ProcessStarted(i) ==
    /\ procs[i].state = "starting"
    /\ procs' = [procs EXCEPT ![i].state = "running", ![i].running = TRUE]
    /\ timers' = timers + 1
    /\ last_log' = {}
    /\ raised' = "none"
    /\ last_op' = "_on_process_started"
    /\ effects' = <<>>
    /\ UNCHANGED <<clientVars, sock, peer_port, wire, sock_buf, tx, next_uuid,
                   sent, decoded, invoked, registered, read_sizes, starts,
                   attempts_this_start, split_read, srv_out, srv_log,
                   sent_objs, closed, bytes_read>>

\* The keys of PROCESS_ERROR_STRING.
ProcessErrorStrings == 0..5

\* ServerProcess._on_process_error(error) on a process whose running field is
\* r: the handler returns at once when the process is not marked running;
\* otherwise it turns a code that is no key of PROCESS_ERROR_STRING into -1 and
\* evaluates self._test_not_deleted, an attribute that neither ServerProcess
\* nor QProcess defines: the AttributeError is not the RuntimeError the handler
\* catches, so the handler raises and the debug message is never logged.
OnProcessError(r, error) ==
    IF ~r
    THEN [error |-> error, raised |-> "none", log |-> {}]
    ELSE [error |-> IF error \in ProcessErrorStrings THEN error ELSE 0 - 1,
          raised |-> "AttributeError",
          log |-> {}]

\* The error signal of process i with FailedToStart (0): the program could not
\* be started.
ProcessFailedToStart(i) ==
    /\ procs[i].state = "starting"
    /\ procs' = [procs EXCEPT ![i].state = "notrunning"]
    /\ last_log' = OnProcessError(procs[i].running, 0).log
    /\ raised' = OnProcessError(procs[i].running, 0).raised
    /\ last_op' = "_on_process_error"
    /\ effects' = <<>>
    /\ UNCHANGED <<clientVars, sock, peer_port, timers, wire, sock_buf, tx,
                   next_uuid, sent, decoded, invoked, registered, read_sizes,
                   starts, attempts_this_start, split_read, srv_out, srv_log,
                   sent_objs, closed, bytes_read>>

\* The error signal of process i while the program runs.  With Crashed (1)
\* the process is gone and its finished signal follows the error signal at
\* once, so _on_process_finished runs after _on_process_error; with any
\* other code the process goes on.  An exception a handler raises stays in
\* the handler.
ProcessError(i, error) ==
    /\ procs[i].state = "running"
    /\ procs' = IF error = 1
                THEN [procs EXCEPT ![i].state = "notrunning", ![i].running = FALSE]
                ELSE procs
    /\ IF error = 1
       THEN /\ last_log' = {}
            /\ raised' = "none"
            /\ last_op' = "_on_process_finished"
       ELSE /\ last_log' = OnProcessError(procs[i].running, error).log
            /\ raised' = OnProcessError(procs[i].running, error).raised
            /\ last_op' = "_on_process_error"
    /\ effects' = <<>>
    /\ UNCHANGED <<clientVars, sock, peer_port, timers, wire, sock_buf, tx,
                   next_uuid, sent, decoded, invoked, registered, read_sizes,
                   starts, attempts_this_start, split_read, srv_out, srv_log,
                   sent_objs, closed, bytes_read>>

\* The finished signal of process i: ServerProcess._on_process_finished.
ProcessFinished(i) ==
    /\ procs[i].state = "running"
    /\ procs' = [procs EXCEPT ![i].state = "notrunning", ![i].running = FALSE]
    /\ last_log' = {}
    /\ raised' = "none"
    /\ last_op' = "_on_process_finished"
    /\ effects' = <<>>
    /\ UNCHANGED <<clientVars, sock, peer_port, timers, wire, sock_buf, tx,
                   next_uuid, sent, decoded, invoked, registered, read_sizes,
                   starts, attempts_this_start, split_read, srv_out, srv_log,
                   sent_objs, closed, bytes_read>>

\* _connect that goes to the port of the first worker started.
TimerFires_FirstPort ==
    /\ timers > 0
    /\ timers' = timers - 1
    /\ connection_attempts' = connection_attempts + 1
    /\ attempts_this_start' = attempts_this_start + 1
    /\ IF sock = "unconnected"
       THEN sock' = "connecting" /\ peer_port' = procs[1].port /\ sock_buf' = <<>>
       ELSE UNCHANGED <<sock, peer_port, sock_buf>>
    /\ raised' = "none"
    /\ last_log' = {}
    /\ last_op' = "_connect"
    /\ effects' = << <<"connectToHost", procs[1].port>> >>
    /\ UNCHANGED <<header_complete, header_buf, to_read, data_buf, callbacks,
                   is_connected, process, port, procs, wire, tx, next_uuid, sent,
                   decoded, invoked, registered, read_sizes, starts,
                   split_read, srv_out, srv_log, sent_objs, closed, bytes_read>>

\* A timer armed with _connect fires: _connect().  connectToHost on a socket
\* that is connecting or connected only warns.
TimerFires ==
    /\ timers > 0
    /\ timers' = timers - 1
    /\ connection_attempts' = connection_attempts + 1
    /\ attempts_this_start' = attempts_this_start + 1
    /\ IF sock = "unconnected"
       THEN sock' = "connecting" /\ peer_port' = port /\ sock_buf' = <<>>
       ELSE UNCHANGED <<sock, peer_port, sock_buf>>
    /\ raised' = "none"
    /\ last_log' = {}
    /\ last_op' = "_connect"
    /\ effects' = << <<"connectToHost", port>> >>
    /\ UNCHANGED <<header_complete, header_buf, to_read, data_buf, callbacks,
                   is_connected, process, port, procs, wire, tx, next_uuid, sent,
                   decoded, invoked, registered, read_sizes, starts,
                   split_read, srv_out, srv_log, sent_objs, closed, bytes_read>>

\* The connected signal: _on_connected.
SocketConnected ==
    /\ sock = "connecting"
    /\ WorkerListening
    /\ sock' = "connected"
    /\ is_connected' = TRUE
    /\ raised' = "none"
    /\ last_log' = {}
    /\ last_op' = "_on_connected"
    /\ effects' = <<>>
    /\ UNCHANGED <<header_complete, header_buf, to_read, data_buf, callbacks,
                   process, connection_attempts, port, procs, peer_port, timers,
                   wire, sock_buf, tx, next_uuid, sent, decoded, invoked,
                   registered, read_sizes, starts, attempts_this_start,
                   split_read, srv_out, srv_log, sent_objs, closed, bytes_read>>

\* The keys of SOCKET_ERROR_STRINGS.
SocketErrorStrings == {0, 1, 2, 3, 4, 5, 6, 7, 0 - 1}

\* _on_error that retries after an error of any kind.
OnError_RetryAny(socket_error) ==
    LET e == IF socket_error \in SocketErrorStrings THEN socket_error ELSE 0 - 1
    IN [timers |-> IF connection_attempts < MAX_RETRY
                   THEN timers + 1 ELSE timers,
        raised |-> IF e = 0 /\ ~(connection_attempts < MAX_RETRY)
                   THEN "RuntimeError" ELSE "none",
        log |-> {<<"error", "socket error", e>>}]

\* _on_error(socket_error): the new timers, the exception and the log record.
\* A code that is no key of SOCKET_ERROR_STRINGS is handled as -1.
OnError(socket_error) ==
    LET e == IF socket_error \in SocketErrorStrings THEN socket_error ELSE 0 - 1
    IN [timers |-> IF e = 0 /\ connection_attempts < MAX_RETRY
                   THEN timers + 1 ELSE timers,
        raised |-> IF e = 0 /\ ~(connection_attempts < MAX_RETRY)
                   THEN "RuntimeError" ELSE "none",
        log |-> {<<"error", "socket error", e>>}]

\* The error signal while a connect attempt is on.
SocketConnectError(socket_error) ==
    /\ sock = "connecting"
    /\ sock' = "unconnected"
    /\ timers' = OnError(socket_error).timers
    /\ raised' = OnError(socket_error).raised
    /\ last_log' = OnError(socket_error).log
    /\ last_op' = "_on_error"
    /\ effects' = <<>>
    /\ UNCHANGED <<clientVars, procs, peer_port, wire, sock_buf, tx, next_uuid,
                   sent, decoded, invoked, registered, read_sizes, starts,
                   attempts_this_start, split_read, srv_out, srv_log,
                   sent_objs, closed, bytes_read>>

\* The worker closes the connection once all it wrote has arrived: the error
\* signal with RemoteHostClosedError (1), then the disconnected signal:
\* _on_error(1), then _on_disconnected.
PeerClosed ==
    /\ sock = "connected"
    /\ wire = <<>>
    /\ sock' = "unconnected"
    /\ timers' = OnError(1).timers
    /\ last_log' = OnError(1).log
    /\ is_connected' = FALSE
    /\ raised' = OnError(1).raised
    /\ last_op' = "_on_disconnected"
    /\ effects' = <<>>
    /\ UNCHANGED <<header_complete, header_buf, to_read, data_buf, callbacks,
                   process, connection_attempts, port, procs, peer_port, wire,
                   sock_buf, tx, next_uuid, sent, decoded, invoked, registered,
                   read_sizes, starts, attempts_this_start, split_read,
                   srv_out, srv_log, sent_objs, closed, bytes_read>>

\* 'sending request: %r' % obj, the argument of send's debug record: a tuple
\* on the right of % is the list of the arguments, so the one %r of the format
\* is filled by a tuple of one item and by no other tuple (a TypeError);
\* every other object is the one argument itself.
Formats(obj) == obj.t = "tuple" => Len(obj.kv) = 1

\* send(obj): the bytes the two writes add to the stream, none when the debug
\* record before them raises.
Send(obj) ==
    IF Formats(obj) THEN Pack(Len(Dumps(obj))) \o Dumps(obj) ELSE <<>>

\* The application calls send(obj).  A write on a socket that is not connected
\* writes nothing.
SendCall(obj) ==
    /\ Len(sent_objs) < MaxFrames
    /\ sent_objs' = Append(sent_objs, obj)
    /\ tx' = IF sock = "connected" THEN tx \o Send(obj) ELSE tx
    /\ raised' = IF Formats(obj) THEN "none" ELSE "TypeError"
    /\ last_log' = {}
    /\ last_op' = "send"
    /\ effects' = <<>>
    /\ UNCHANGED <<clientVars, procs, sock, peer_port, timers, wire, sock_buf,
                   next_uuid, sent, decoded, invoked, registered, read_sizes,
                   starts, attempts_this_start, split_read, srv_out, srv_log,
                   closed, bytes_read>>

\* close() that sends the shutdown message to every running worker, connected
\* or not.
CloseBody_ShutdownUnconnected(finished, outs, newCallbacks) ==
    /\ LET shutdown == process # 0 /\ procs[process].running
           terminate == process # 0 /\ procs[process].running
       IN /\ tx' = IF shutdown THEN tx \o Send(JStr(S_shutdown)) ELSE tx
          /\ procs' = IF terminate
                      THEN [procs EXCEPT
                              ![process].running = FALSE,
                              ![process].state =
                                  IF finished THEN "notrunning" ELSE @]
                      ELSE procs
          /\ finished = TRUE \/ terminate
          /\ outs = <<>> \/ terminate
          /\ effects' =
                (IF shutdown THEN << <<"send", process>> >> ELSE <<>>)
                \o << <<"socket.close", 0>> >>
                \o (IF terminate
                    THEN << <<"terminate", process>>,
                            <<"waitForFinished", process>> >>
                    ELSE <<>>)
    /\ Len(srv_out) + Len(outs) <= MaxChunks
    /\ srv_out' = srv_out \o outs
    /\ srv_log' = srv_log \o LoggedAll(outs)
    /\ sock' = "unconnected"
    /\ sock_buf' = <<>>
    /\ wire' = <<>>
    /\ is_connected' = FALSE
    /\ closed' = TRUE
    /\ callbacks' = newCallbacks
    /\ raised' = "none"
    /\ last_log' = {}
    /\ last_op' = "close"
    /\ UNCHANGED <<header_complete, header_buf, to_read, data_buf, process,
                   connection_attempts, port, peer_port, timers, next_uuid, sent,
                   decoded, invoked, registered, read_sizes, starts,
                   attempts_this_start, split_read, sent_objs, bytes_read>>

\* close() that ends with the pending callbacks newCallbacks: the shutdown
\* message if connected to a running worker, the socket's close,
\* _terminate_server_process, is_connected = False.  waitForFinished blocks
\* and delivers the signals of the process while it does: outs are the chunks
\* of output, each <<level, chunk>>, whose handlers run inside it, with
\* running already False; finished tells whether it saw the process finish
\* (it then runs _on_process_finished) or timed out.  An error signal in the
\* wait finds running False and returns at once.
CloseBody(finished, outs, newCallbacks) ==
    /\ LET shutdown == is_connected /\ procs[process].running
           terminate == process # 0 /\ procs[process].running
       IN /\ tx' = IF shutdown THEN tx \o Send(JStr(S_shutdown)) ELSE tx
          /\ procs' = IF terminate
                      THEN [procs EXCEPT
                              ![process].running = FALSE,
                              ![process].state =
                                  IF finished THEN "notrunning" ELSE @]
                      ELSE procs
          /\ finished = TRUE \/ terminate
          /\ outs = <<>> \/ terminate
          /\ effects' =
                (IF shutdown THEN << <<"send", process>> >> ELSE <<>>)
                \o << <<"socket.close", 0>> >>
                \o (IF terminate
                    THEN << <<"terminate", process>>,
                            <<"waitForFinished", process>> >>
                    ELSE <<>>)
    /\ Len(srv_out) + Len(outs) <= MaxChunks
    /\ srv_out' = srv_out \o outs
    /\ srv_log' = srv_log \o LoggedAll(outs)
    /\ sock' = "unconnected"
    /\ sock_buf' = <<>>
    /\ wire' = <<>>
    /\ is_connected' = FALSE
    /\ closed' = TRUE
    /\ callbacks' = newCallbacks
    /\ raised' = "none"
    /\ last_log' = {}
    /\ last_op' = "close"
    /\ UNCHANGED <<header_complete, header_buf, to_read, data_buf, process,
                   connection_attempts, port, peer_port, timers, next_uuid, sent,
                   decoded, invoked, registered, read_sizes, starts,
                   attempts_this_start, split_read, sent_objs, bytes_read>>

\* close() that drops the pending callbacks.
Close_ClearsCallbacks(finished, outs) == CloseBody(finished, outs, <<>>)

\* close(): it does not touch _callbacks.
Close(finished, outs) == CloseBody(finished, outs, callbacks)

\* str(uuid.uuid4()): a string no earlier call returned, here the decimal
\* digits of the number of the call.
Uuid4(k) == IntToDigits(k)

\* The request message of request_work.
Request(request_id, classname, args) ==
    JDict(<< <<K_request_id, JStr(request_id)>>, <<K_worker, JStr(classname)>>,
             <<K_data, args>> >>)

\* request_work that stores on_receive also when it is None.
RequestWorkBody_StoresNone(classname, args, on_receive, notConnected) ==
    /\ last_op' = "request_work"
    /\ effects' = <<>>
    /\ last_log' = {}
    /\ IF notConnected
       THEN /\ raised' = "NotConnectedError"
            /\ UNCHANGED <<callbacks, tx, next_uuid, registered>>
       ELSE /\ next_uuid < MaxRequests
            /\ raised' = "none"
            /\ next_uuid' = next_uuid + 1
            /\ callbacks' = DictSet(callbacks, Uuid4(next_uuid + 1), on_receive)
            /\ registered' = IF on_receive # "None"
                             THEN DictSet(registered, Uuid4(next_uuid + 1), on_receive)
                             ELSE registered
            /\ tx' = tx \o Send(Request(Uuid4(next_uuid + 1), classname, args))
    /\ UNCHANGED <<header_complete, header_buf, to_read, data_buf, is_connected,
                   process, connection_attempts, port, procs, sock, peer_port,
                   timers, wire, sock_buf, sent, decoded, invoked, read_sizes,
                   starts, attempts_this_start, split_read, srv_out, srv_log,
                   sent_objs, closed, bytes_read>>

\* request_work whose precondition check gives notConnected.
RequestWorkBody(classname, args, on_receive, notConnected) ==
    /\ last_op' = "request_work"
    /\ effects' = <<>>
    /\ last_log' = {}
    /\ IF notConnected
       THEN /\ raised' = "NotConnectedError"
            /\ UNCHANGED <<callbacks, tx, next_uuid, registered>>
       ELSE /\ next_uuid < MaxRequests
            /\ raised' = "none"
            /\ next_uuid' = next_uuid + 1
            /\ callbacks' = IF on_receive # "None"
                            THEN DictSet(callbacks, Uuid4(next_uuid + 1), on_receive)
                            ELSE callbacks
            /\ registered' = IF on_receive # "None"
                             THEN DictSet(registered, Uuid4(next_uuid + 1), on_receive)
                             ELSE registered
            /\ tx' = tx \o Send(Request(Uuid4(next_uuid + 1), classname, args))
    /\ UNCHANGED <<header_complete, header_buf, to_read, data_buf, is_connected,
                   process, connection_attempts, port, procs, sock, peer_port,
                   timers, wire, sock_buf, sent, decoded, invoked, read_sizes,
                   starts, attempts_this_start, split_read, srv_out, srv_log,
                   sent_objs, closed, bytes_read>>

\* request_work that checks the worker process and not is_connected.
RequestWork_NoConnectedCheck(classname, args, on_receive) ==
    RequestWorkBody(classname, args, on_receive,
                    process = 0 \/ ~procs[process].running)

\* request_work(worker_class_or_function, args, on_receive): classname is the
\* '<module>.<name>' of the worker, on_receive "None" or a callable.
RequestWork(classname, args, on_receive) ==
    RequestWorkBody(classname, args, on_receive,
                    process = 0 \/ ~procs[process].running \/ ~is_connected)

\* ------------------------------------------------------------- the inputs

\* The worker of the requests, and their arguments.
Classnames == {<<109, 46, 102>>}
Args == {JInt(1)}
\* What request number k may give as on_receive: "None", or a callable of
\* its own.
OnReceive(k) == {"None", <<"callback", k>>}

\* A response message.
Response(request_id, status, results) ==
    JDict(<< <<K_request_id, JStr(request_id)>>, <<K_status, JBool(status)>>,
             <<K_results, results>> >>)

\* What the worker answers in its frame number k: a status, and results that
\* no other frame has.
Answer(k) == <<k % 2 = 1, JInt(k)>>
\* The identifiers the worker may answer to: those of the requests so far,
\* and one no request has.
AnswerIds == {Uuid4(k) : k \in 1..next_uuid} \cup {<<120>>}

\* The payloads the worker may write next in the client runs: responses, a
\* bare string, and a dict with no results.
ClientPayloads ==
    {Dumps(Response(id, Answer(Len(sent) + 1)[1], Answer(Len(sent) + 1)[2])) :
        id \in AnswerIds}
    \cup {Dumps(JStr(S_shutdown)),
          Dumps(JDict(<< <<K_request_id, JStr(Uuid4(1))>> >>))}

\* The payloads of the framing runs: 1, 12, 123, and two that do not decode:
\* '{' and the byte 0xFF.
FramingPayloads == {<<49>>, <<49, 50>>, <<49, 50, 51>>, <<Ch.lbrace>>, <<255>>}

\* The objects the application gives to send() in the codec runs.
Values ==
    {JInt(0), JInt(12), JInt(0 - 3), JStr(<<>>), JStr(S_shutdown),
     JStr(<<Ch.quote, Ch.backslash, 10, 233>>), JBool(TRUE), JBool(FALSE), JNull,
     JDict(<<>>), JDict(<< <<<<97>>, JInt(1)>>, <<<<98>>, JList(<<JNull>>)>> >>),
     Response(<<49>>, TRUE, JInt(1)), JList(<<>>), JList(<<JInt(1), JStr(<<97>>)>>),
     JTuple(<<JInt(1), JInt(2)>>), JTuple(<<JInt(7)>>),
     JDict(<< <<<<97>>, JTuple(<<>>)>> >>)}

\* The bytes of the worker's output: two letters, "\n", "\r", and 0xFF, which is
\* no UTF-8.
OutputBytes == {97, 98, Ch.nl, Ch.cr, 255}

\* The chunks readAllStandardOutput and readAllStandardError return: at least
\* one byte each.
RECURSIVE ChunksOfLen(_)
ChunksOfLen(n) ==
    IF n = 0 THEN {<<>>}
    ELSE {<<c>> \o rest : c \in OutputBytes, rest \in ChunksOfLen(n - 1)}

Chunks == UNION {ChunksOfLen(n) : n \in 1..MaxChunkLen}

\* What the worker writes while close() waits for it to finish: nothing, or a
\* line on its standard output, a line on its standard error and the start of
\* a line on its standard output.
CloseOutputs ==
    {<<>>, << <<"debug", <<97, Ch.nl>>>>, <<"error", <<98, Ch.nl>>>>,
              <<"debug", <<97>>>> >>}

\* The errors a running process reports in the connection runs: Crashed,
\* WriteError, and a code that is no key of PROCESS_ERROR_STRING.
ProcessErrors == {1, 4, 9}

\* The errors a connect attempt may end in, in the lifecycle runs:
\* ConnectionRefusedError, SocketTimeoutError, and ProxyAuthenticationRequiredError,
\* which is no key of SOCKET_ERROR_STRINGS.
ConnectErrors == {0, 5, 12}

\* ------------------------------------------------------- specifications

\* The client runs: one start whose first connect attempt succeeds, then every
\* call and event; each readyRead delivers all the worker has written, and the
\* worker finishes while close() waits for it.
Next ==
    \/ \E exists \in BOOLEAN : starts = 0 /\ Start(exists, 49152)
    \/ \E i \in 1..Len(procs) : ProcessStarted(i)
    \/ \E i \in 1..Len(procs) : ProcessFailedToStart(i)
    \/ \E i \in 1..Len(procs) : ProcessFinished(i)
    \/ TimerFires
    \/ SocketConnected
    \/ PeerClosed
    \/ \E outs \in CloseOutputs : Close(TRUE, outs)
    \/ \E c \in Classnames, a \in Args, f \in OnReceive(next_uuid + 1) :
          RequestWork(c, a, f)
    \/ /\ sock = "connected" /\ Len(sent) < MaxFrames
       /\ \E payload \in ClientPayloads : WorkerWrites(payload)
    \/ ReadyRead(Len(wire))

Spec == Init /\ [][Next]_vars

\* The framing runs: one start, a connection, and frames read in chunks of
\* every size.
NextFraming ==
    \/ starts = 0 /\ Start(TRUE, 49152)
    \/ \E i \in 1..Len(procs) : ProcessStarted(i)
    \/ TimerFires
    \/ SocketConnected
    \/ sock = "connected" /\ \E payload \in FramingPayloads : WorkerWrites(payload)
    \/ \E n \in 1..Len(wire) : ReadyRead(n)

SpecFraming == Init /\ [][NextFraming]_vars

\* The codec runs: the application sends objects to a worker that writes every
\* frame it receives back, and each readyRead delivers all it has written.
NextCodec ==
    \/ starts = 0 /\ Start(TRUE, 49152)
    \/ \E i \in 1..Len(procs) : ProcessStarted(i)
    \/ TimerFires
    \/ SocketConnected
    \/ sock = "connected" /\ \E obj \in Values : SendCall(obj)
    \/ /\ sock = "connected"
       /\ \E received \in {Frames(tx)} :
             /\ Len(sent) < Len(received)
             /\ WorkerWrites(received[Len(sent) + 1])
    \/ ReadyRead(Len(wire))

SpecCodec == Init /\ [][NextCodec]_vars

\* The lifecycle runs: starts, each on a free port that is not the port of the
\* start before it, with a script that exists or not,
\* processes that start, fail to start and finish, connect attempts that
\* succeed or end in an error, the worker closing the connection, and close().
\* No traffic.
NextLife ==
    \/ \E exists \in BOOLEAN, p \in FreePorts \ {port} : Start(exists, p)
    \/ \E i \in 1..Len(procs) : ProcessStarted(i)
    \/ \E i \in 1..Len(procs) : ProcessFailedToStart(i)
    \/ \E i \in 1..Len(procs) : ProcessFinished(i)
    \/ TimerFires
    \/ SocketConnected
    \/ \E e \in ConnectErrors :
          connection_attempts <= MaxRefusals /\ SocketConnectError(e)
    \/ PeerClosed
    \/ \E finished \in BOOLEAN, outs \in CloseOutputs : Close(finished, outs)

SpecLife == Init /\ [][NextLife]_vars

\* The output runs: one worker is started and writes to its standard output
\* and standard error, which arrive in chunks.
NextOutput ==
    \/ starts = 0 /\ Start(TRUE, 49152)
    \/ \E i \in 1..Len(procs) : ProcessStarted(i)
    \/ \E i \in 1..Len(procs), chunk \in Chunks : StdoutReady(i, chunk)
    \/ \E i \in 1..Len(procs), chunk \in Chunks : StderrReady(i, chunk)

SpecOutput == Init /\ [][NextOutput]_vars

\* The connection runs: starts, processes that start, fail to start or report
\* an error while they run, connect attempts with as many refusals as the
\* network cares to give, and close.  No traffic.
NextRetry ==
    \/ \E exists \in BOOLEAN : Start(exists, 49152)
    \/ \E i \in 1..Len(procs) : ProcessStarted(i)
    \/ \E i \in 1..Len(procs) : ProcessFailedToStart(i)
    \/ \E i \in 1..Len(procs), e \in ProcessErrors : ProcessError(i, e)
    \/ TimerFires
    \/ SocketConnected
    \/ SocketConnectError(0)
    \/ \E outs \in CloseOutputs : Close(TRUE, outs)

SpecRetry == Init /\ [][NextRetry]_vars

\* ------------------------------------------------- what the claims speak of

\* A payload that decodes: UTF-8 text that is one JSON value.
WellFormed(payload) == Utf8Ok(payload) /\ Loads(payload).ok

\* The messages logged when the whole stream arrives in one readyRead at a
\* client just constructed.
DecodedWhole(stream) == ReadLoop(FreshDecoder(stream)).decoded

\* Payload number k of decoded as a message, and whether it is a response.
Message(k) == Loads(decoded[k]).v
IsResponse(m) == HasResponseKeys(m) /\ DictGet(m.kv, K_request_id).t = "str"
RequestIdOf(m) == DictGet(m.kv, K_request_id).s

\* The keys of a dict held as items.
Keys(kv) == {kv[i][1] : i \in 1..Len(kv)}

\* ------------------------------------------------------------------ claims

\* C1: split-invariance of the frame decoder.  When a stream of well-formed
\* frames has arrived one byte per readyRead, the messages decoded are those
\* decoded when the same stream arrives in a single readyRead.
C1_SplitInvariance ==
    (/\ read_sizes = "bytewise"
     /\ wire = <<>>
     /\ \A k \in 1..Len(sent) : WellFormed(sent[k]))
    => decoded = DecodedWhole(Stream(sent))

\* C2: a single well-formed frame, split across reads at any boundary
\* (inside the header too), is decoded to the one message it carries once all
\* its bytes have arrived.
C2_SplitFrameDecoded ==
    (Len(sent) = 1 /\ WellFormed(sent[1]) /\ wire = <<>>)
    => decoded = <<sent[1]>>

\* C3: a callback is called at most once per identifier; every call carries
\* the status and results of the response it was called for, which bears the
\* identifier the callback was stored under; and the first response decoded
\* for a stored identifier is answered by a call, a repeated one is not.
C3_CallbackExactlyOnce ==
    \E msg \in {[k \in 1..Len(decoded) |-> Message(k)]} :
    \E rid \in {[k \in 1..Len(decoded) |->
                    IF IsResponse(msg[k]) THEN RequestIdOf(msg[k]) ELSE <<>>]} :
       /\ \A i, j \in 1..Len(invoked) :
             i # j => rid[invoked[i].at] # rid[invoked[j].at]
       /\ \A i \in 1..Len(invoked) :
             /\ IsResponse(msg[invoked[i].at])
             /\ KeyIndex(registered, rid[invoked[i].at]) # 0
             /\ invoked[i].status = DictGet(msg[invoked[i].at].kv, K_status)
             /\ invoked[i].results = DictGet(msg[invoked[i].at].kv, K_results)
       /\ \A k \in 1..Len(decoded) :
             (IsResponse(msg[k]) /\ KeyIndex(registered, rid[k]) # 0)
             => ((\E i \in 1..Len(invoked) : invoked[i].at = k)
                 <=> ~\E j \in 1..(k - 1) :
                        IsResponse(msg[j]) /\ rid[j] = rid[k])

\* A response was decoded twice for a stored identifier, and its callback
\* was called.
C3_Witness ==
    \E j, k \in 1..Len(decoded) :
        /\ j < k
        /\ IsResponse(Message(j))
        /\ IsResponse(Message(k))
        /\ RequestIdOf(Message(j)) = RequestIdOf(Message(k))
        /\ \E i \in 1..Len(invoked) : invoked[i].at = j

\* C4 as claimed: close() calls no callback, and _callbacks is empty when it
\* returns.
C4_CloseEmptiesCallbacks ==
    [][(\E finished \in BOOLEAN, outs \in CloseOutputs : Close(finished, outs))
       => (invoked' = invoked /\ callbacks' = <<>>)]_vars

\* C4, amended: close() calls no callback and leaves _callbacks as it was:
\* the pending entries are still stored when it returns.
C4_CloseKeepsCallbacks ==
    [][(\E finished \in BOOLEAN, outs \in CloseOutputs : Close(finished, outs))
       => (invoked' = invoked /\ callbacks' = callbacks)]_vars

\* close() has returned while a request was pending.
C4_Witness == last_op = "close" /\ callbacks # <<>>

\* C5: a payload that fails to decode leaves the decoder accumulating a
\* header with empty buffers, and a well-formed frame after it is decoded as
\* if the bad frame had not been there.
C5_DecodeFailureKeepsFraming ==
    /\ raised \in {"UnicodeDecodeError", "ValueError:json"}
       => (~header_complete /\ header_buf = <<>> /\ data_buf = <<>>)
    /\ (/\ Len(sent) = 2
        /\ ~WellFormed(sent[1])
        /\ WellFormed(sent[2])
        /\ ~split_read
        /\ wire = <<>>)
       => decoded = <<sent[2]>>

\* C8: request_work raises NotConnectedError, stores nothing and writes
\* nothing when there is no worker process, the worker is not running or the
\* client is not connected; otherwise it writes exactly one frame, a request
\* with an identifier no earlier request had, and stores the callback, if one
\* is given, under that identifier.
C8_RequestWork ==
    [][\A c \in Classnames, a \in Args, f \in OnReceive(next_uuid + 1) :
          RequestWork(c, a, f) =>
            IF process = 0 \/ ~procs[process].running \/ ~is_connected
            THEN /\ raised' = "NotConnectedError"
                 /\ callbacks' = callbacks
                 /\ tx' = tx
            ELSE \E old \in {Frames(tx)}, new \in {Frames(tx')} :
                 \E m \in {Loads(new[Len(new)])} :
                 \E rid \in {DictGet(m.v.kv, K_request_id)} :
                    /\ raised' = "none"
                    /\ Len(new) = Len(old) + 1
                    /\ tx' = tx \o Frame(new[Len(new)])
                    /\ m.ok
                    /\ m.v.t = "dict"
                    /\ rid.t = "str"
                    /\ DictGet(m.v.kv, K_worker) = JStr(c)
                    /\ DictGet(m.v.kv, K_data) = a
                    /\ \A k \in 1..Len(old) :
                          \E prev \in {Loads(old[k]).v} :
                             prev.t = "dict"
                             => DictGet(prev.kv, K_request_id) # rid
                    /\ rid.s \notin Keys(callbacks)
                    /\ callbacks' = IF f = "None" THEN callbacks
                                    ELSE Append(callbacks, <<rid.s, f>>)
      ]_vars

\* A request was written, and a later request_work raised NotConnectedError.
C8_Witness ==
    next_uuid > 0 /\ last_op = "request_work" /\ raised = "NotConnectedError"

\* C9: every call of the callable given with request number k carries the
\* status and results of a response whose request_id is the identifier of
\* request number k, in whatever order the responses arrive.
C9_CorrelationById ==
    \A i \in 1..Len(invoked) :
        LET m == Message(invoked[i].at)
        IN /\ IsResponse(m)
           /\ RequestIdOf(m) = Uuid4(invoked[i].cb[2])
           /\ invoked[i].status = DictGet(m.kv, K_status)
           /\ invoked[i].results = DictGet(m.kv, K_results)

\* Two requests were pending, the response to the second arrived first, and
\* both callbacks were called, with different results.
C9_Witness ==
    /\ Len(invoked) = 2
    /\ invoked[1].cb = <<"callback", 2>>
    /\ invoked[2].cb = <<"callback", 1>>
    /\ invoked[1].results # invoked[2].results

\* C10: a readyRead in which no decoded message is a response to a pending
\* identifier calls no callback, leaves _callbacks as it was, and raises
\* nothing.
C10_UnknownIdIgnored ==
    [][(/\ last_op' = "_on_ready_read"
        /\ Len(wire') < Len(wire)
        /\ \A k \in (Len(decoded) + 1)..Len(decoded') :
              \E m \in {Loads(decoded'[k]).v} :
                 ~(IsResponse(m) /\ RequestIdOf(m) \in Keys(callbacks)))
       => (/\ invoked' = invoked
           /\ callbacks' = callbacks
           /\ raised' = "none")]_vars

\* A response with an identifier no request has, and a message that is no
\* response, were decoded while a request was pending.
C10_Witness ==
    /\ callbacks # <<>>
    /\ last_op = "_on_ready_read"
    /\ raised = "none"
    /\ \E j, k \in 1..Len(decoded) :
          /\ IsResponse(Message(j)) /\ RequestIdOf(Message(j)) = <<120>>
          /\ ~IsResponse(Message(k))

\* C6: under persistent refusal a start makes exactly MAX_RETRY connect
\* attempts: a refusal after fewer attempts arms one more, the refusal of
\* attempt number MAX_RETRY is the fatal failure, and no further attempt is
\* made.
C6_ExactlyMaxRetry ==
    /\ attempts_this_start <= MAX_RETRY
    /\ raised = "RuntimeError" => attempts_this_start = MAX_RETRY
    /\ (last_op = "_on_error" /\ attempts_this_start < MAX_RETRY)
       => (timers >= 1 /\ raised = "none")

\* Nothing is pending that could still connect the client or report a
\* failure: no timer, no connection attempt, no process being started.
Quiescent ==
    /\ timers = 0
    /\ sock # "connecting"
    /\ \A i \in 1..Len(procs) : procs[i].state # "starting"

\* C7: once the error of a worker that failed to start has been handled and
\* nothing else is pending, the client is connected or the failure has been
\* reported.
C7_NoSilentStall ==
    (last_op = "_on_process_error" /\ Quiescent)
    => (is_connected \/ raised # "none" \/ last_log # {})

\* C11: a readyRead that brings several whole frames decodes all of them in
\* that one event, in the order of the wire, calls the callbacks in that
\* order, and leaves the decoder waiting for a header with empty buffers.
C11_AllFramesInOneEvent ==
    [][(last_op' = "_on_ready_read" /\ Len(wire') < Len(wire))
       => \E arrived \in {Frames(sock_buf \o SubSeq(wire, 1, Len(wire) - Len(wire')))} :
             /\ decoded' = decoded \o arrived
             /\ effects' = << <<"decoded", Len(arrived)>> >>
             /\ \A i, j \in 1..Len(invoked') :
                   i < j => invoked'[i].at < invoked'[j].at
             /\ ~header_complete'
             /\ header_buf' = <<>>
             /\ data_buf' = <<>>
             /\ to_read' = 0
             /\ sock_buf' = <<>>]_vars

\* One readyRead brought two frames, both responses to pending requests, and
\* both callbacks were called in it.
C11_Witness ==
    /\ last_op = "_on_ready_read"
    /\ effects = << <<"decoded", 2>> >>
    /\ Len(invoked) = 2

\* C12 as claimed: every object given to send() is written as one frame, a
\* header that is the length of its payload and then the payload, and every
\* frame written back whole is decoded to a message equal to the object.
C12_RoundTrip ==
    sent_objs # <<>>
    => /\ tx = Stream([k \in 1..Len(sent_objs) |-> Dumps(sent_objs[k])])
       /\ Len(decoded) <= Len(sent_objs)
       /\ (wire = <<>> /\ Len(sent) = Len(sent_objs))
          => Len(decoded) = Len(sent_objs)
       /\ \A k \in 1..Len(decoded) : Message(k) = sent_objs[k]

\* C13: start() with a script that does not exist raises at once (the
\* AssertionError of its assert), creates no ServerProcess, starts none, picks
\* no port, arms no timer, and leaves _process and _port as they were.
C13_StartMissingScript ==
    [][\A p \in FreePorts :
          Start(FALSE, p)
          => /\ raised' = "AssertionError"
             /\ effects' = <<>>
             /\ process' = process
             /\ port' = port
             /\ procs' = procs
             /\ timers' = timers]_vars

\* start() with a script that does not exist has raised, at a client that an
\* earlier start() gave a process and a port.
C13_Witness ==
    last_op = "start" /\ raised = "AssertionError" /\ process # 0 /\ port # 0 - 1

\* The place of the effect named what among the effects of the last call, 0
\* when it is not among them.
EffectPos(es, what) ==
    IF \E i \in 1..Len(es) : es[i][1] = what
    THEN CHOOSE i \in 1..Len(es) : es[i][1] = what
    ELSE 0

\* C14: close() orders its effects.  Called while connected with the worker
\* running, it writes the frame of "shutdown", then closes the socket, then
\* terminates the worker process and waits for it; called while not connected
\* or with no running worker, it writes nothing; the socket is closed in
\* every case, and before the worker is terminated; when it returns the client
\* is not connected and the worker is not marked running.
C14_CloseOrder ==
    [][(/\ last_op' = "close"
        /\ \E finished \in BOOLEAN, outs \in CloseOutputs : Close(finished, outs))
          => \E es \in {effects'} :
               /\ IF is_connected /\ process # 0 /\ procs[process].running
                  THEN /\ tx' = tx \o Frame(Dumps(JStr(S_shutdown)))
                       /\ 0 < EffectPos(es, "send")
                       /\ EffectPos(es, "send") < EffectPos(es, "socket.close")
                       /\ EffectPos(es, "socket.close") < EffectPos(es, "terminate")
                       /\ EffectPos(es, "terminate") < EffectPos(es, "waitForFinished")
                  ELSE /\ tx' = tx
                       /\ EffectPos(es, "send") = 0
               /\ 0 < EffectPos(es, "socket.close")
               /\ EffectPos(es, "terminate") # 0
                    => EffectPos(es, "socket.close") < EffectPos(es, "terminate")
               /\ ~is_connected'
               /\ sock' = "unconnected"
               /\ process # 0 => ~procs'[process].running]_vars

\* close() has returned after it wrote the shutdown frame, closed the socket
\* and terminated the worker.
C14_Witness ==
    /\ last_op = "close"
    /\ Len(effects) = 4
    /\ tx = Frame(Dumps(JStr(S_shutdown)))
    /\ ~is_connected
    /\ ~procs[process].running

\* C15: the socket-error handler never raises: whatever error it is given and
\* in whatever state, also a refusal once the retries are used up, it returns
\* normally.
C15_ErrorHandlerNeverRaises ==
    last_op = "_on_error" => raised = "none"

\* All that the worker wrote to the stream logged at this level, as the chunks
\* of srv_out up to the k-th brought it.
RECURSIVE OutputOf(_, _, _)
OutputOf(out, level, k) ==
    IF k = 0 THEN <<>>
    ELSE OutputOf(out, level, k - 1)
         \o (IF out[k][1] = level THEN out[k][2] ELSE <<>>)

\* The lines logged at this level.
LoggedAt(log, level) ==
    LET RECURSIVE pick(_)
        pick(k) == IF k = 0 THEN <<>>
                   ELSE pick(k - 1)
                        \o (IF log[k][1] = level THEN <<log[k][2]>> ELSE <<>>)
    IN pick(Len(log))

\* The lines of a text that ended: what splitlines makes of the text up to
\* its last line boundary.
EndedLines(text) ==
    IF \A i \in 1..Len(text) : text[i] \notin LineEnds THEN <<>>
    ELSE SplitLines(SubSeq(text, 1,
            CHOOSE i \in 1..Len(text) :
               text[i] \in LineEnds /\ \A j \in (i + 1)..Len(text) : text[j] \notin LineEnds))

\* s is a prefix of t.
IsPrefix(s, t) == Len(s) <= Len(t) /\ s = SubSeq(t, 1, Len(s))

\* C16: an output handler forwards only lines that ended in its chunk: what
\* it logs for a chunk is a line of the chunk with its boundary in the chunk,
\* and nothing when the chunk holds no boundary.
C16_NoUnterminatedFragment ==
    [][(Len(srv_out') = Len(srv_out) + 1)
       => \E chunk \in {srv_out'[Len(srv_out')][2]} :
             IsPrefix(LoggedAt(SubSeq(srv_log', Len(srv_log) + 1, Len(srv_log')),
                               srv_out'[Len(srv_out')][1]),
                      EndedLines(chunk))]_vars

\* C17: lines split over reads are put together: at each level, what has been
\* logged are the lines that ended in all the output read so far, each once,
\* whole and in order, however the output was cut into chunks.
C17_LinesAcrossReads ==
    \A level \in {"debug", "error"} :
       \E text \in {OutputOf(srv_out, level, Len(srv_out))} :
          Utf8Ok(text) => LoggedAt(srv_log, level) = EndedLines(text)

\* C18: the worker and the client agree on the port.  start() picks the port
\* before it starts the process, and starts the process with that port on its
\* command line; every _connect, the first of a start and every retry, calls
\* connectToHost with the port the client's current process was started with.
C18_PortAgreement ==
    [][/\ \A p \in FreePorts :
             Start(TRUE, p)
             => \E es \in {effects'} :
                  /\ 0 < EffectPos(es, "_pick_free_port")
                  /\ EffectPos(es, "_pick_free_port") < EffectPos(es, "process.start")
                  /\ es[EffectPos(es, "_pick_free_port")][2] = p
                  /\ es[EffectPos(es, "process.start")][2] = p
                  /\ procs'[process'].port = p
                  /\ port' = p
       /\ TimerFires
             => /\ effects' = << <<"connectToHost", procs[process].port>> >>
                /\ sock = "unconnected"
                     => sock' = "connecting" /\ peer_port' = procs[process].port
       /\ process' # 0 => port' = procs'[process'].port]_vars

\* A retry of the second start has called connectToHost, with the port of
\* the second worker, which is not the port of the first.
C18_Witness ==
    /\ last_op = "_connect"
    /\ starts = 2
    /\ attempts_this_start = 2
    /\ procs[1].port # procs[2].port
    /\ effects = << <<"connectToHost", procs[2].port>> >>
    /\ sock = "connecting"
    /\ peer_port = procs[2].port

\* The handler that just ran was given a socket error of this code.
HandledSocketError(log, e) == <<"error", "socket error", e>> \in log

\* C19: only a refusal is retried.  A timer of _connect is armed only by the
\* started signal of a worker or by _on_error given ConnectionRefusedError; a
\* socket error of another kind arms none and leaves the attempt counter as it
\* was; the counter changes, and connectToHost is called, only when such a
\* timer fires.
C19_OnlyRefusedRetries ==
    [][/\ timers' > timers
          => \/ last_op' = "_on_process_started"
             \/ last_op' = "_on_error" /\ HandledSocketError(last_log', 0)
       /\ (\E e \in SocketErrorStrings \ {0} : HandledSocketError(last_log', e))
          => timers' = timers /\ connection_attempts' = connection_attempts
       /\ connection_attempts' # connection_attempts
          => /\ last_op' = "_connect"
             /\ timers > 0 /\ timers' = timers - 1
             /\ connection_attempts' = connection_attempts + 1
       /\ EffectPos(effects', "connectToHost") # 0
          => last_op' = "_connect" /\ timers' = timers - 1]_vars

\* After a refusal and the retry it armed, the second attempt ended in an
\* error that is no refusal and no key of SOCKET_ERROR_STRINGS, and no timer
\* is armed.
C19_Witness ==
    /\ last_op = "_on_error"
    /\ HandledSocketError(last_log, 0 - 1)
    /\ attempts_this_start = 2
    /\ timers = 0
    /\ sock = "unconnected"

\* A request with this identifier is among the frames written to the socket.
RequestWritten(frames, id) ==
    \E c \in Classnames, a \in Args :
       \E payload \in {Dumps(Request(id, c, a))} :
          \E i \in 1..Len(frames) : frames[i] = payload

\* The identifiers whose response has been dispatched: a callback was called
\* for a decoded response that bears them.
DispatchedIds(calls, payloads) ==
    {RequestIdOf(Loads(payloads[calls[i].at]).v) : i \in 1..Len(calls)}

\* C20: the pending-callback mapping.  After every step that changes
\* _callbacks, the bytes written or the callbacks called, each key of
\* _callbacks is the identifier of a request that was written to the socket
\* with a callback, the one stored under it, and no response with that
\* identifier has been dispatched; request_work without a callback leaves
\* _callbacks as it was; and a key leaves _callbacks only in an
\* _on_ready_read that decodes a response with that identifier and calls the
\* callback.
C20_PendingCallbacks ==
    [][/\ (/\ callbacks' # <<>>
           /\ callbacks' # callbacks \/ tx' # tx \/ invoked' # invoked)
          => \E frames \in {Frames(tx')},
                done \in {DispatchedIds(invoked', decoded')} :
                \A i \in 1..Len(callbacks') :
                   /\ RequestWritten(frames, callbacks'[i][1])
                   /\ callbacks'[i][2] # "None"
                   /\ DictGet(registered', callbacks'[i][1]) = callbacks'[i][2]
                   /\ callbacks'[i][1] \notin done
       /\ \A c \in Classnames, a \in Args :
             (last_op' = "request_work" /\ RequestWork(c, a, "None"))
             => callbacks' = callbacks
       /\ \A key \in Keys(callbacks) \ Keys(callbacks') :
             /\ last_op' = "_on_ready_read"
             /\ \E j \in (Len(invoked) + 1)..Len(invoked') :
                   /\ invoked'[j].at > Len(decoded)
                   /\ invoked'[j].cb = DictGet(callbacks, key)
                   /\ \E m \in {Loads(decoded'[invoked'[j].at]).v} :
                         IsResponse(m) /\ RequestIdOf(m) = key]_vars

\* Of two requests made with callbacks, one has been answered and its entry
\* removed, and the entry of the other is pending.
C20_Witness ==
    /\ last_op = "_on_ready_read"
    /\ next_uuid = 2
    /\ Len(registered) = 2
    /\ Len(invoked) = 1
    /\ Len(callbacks) = 1
    /\ RequestWritten(Frames(tx), callbacks[1][1])
    /\ callbacks[1][1] \notin DispatchedIds(invoked, decoded)

\* C21: a closed client makes no connect attempt.  While close() has returned
\* and start() has not been called since, no _connect runs and no refusal is
\* reported as the fatal failure: a timer armed before close() does nothing
\* when it fires.
C21_NoConnectAfterClose ==
    closed => /\ last_op # "_connect"
              /\ ~(last_op = "_on_error" /\ raised = "RuntimeError")

\* C22: every start() has the whole retry budget.  The attempt counter is 0
\* when the first _connect of a start runs, whatever starts, attempts, refusals
\* and closes came before; so after each _connect the counter is the number
\* of attempts of that start, and it never passes MAX_RETRY.
C22_FullBudgetPerStart ==
    [][TimerFires
       => /\ attempts_this_start = 0 => connection_attempts = 0
          /\ connection_attempts' = attempts_this_start'
          /\ connection_attempts' <= MAX_RETRY]_vars

\* The frame of the stream b in which its first pos bytes end: the payload
\* length its header declares.
RECURSIVE DeclaredAt(_, _)
DeclaredAt(b, pos) ==
    IF Len(b) < 4 THEN 0
    ELSE IF pos <= 4 + Unpack(b) THEN Unpack(b)
    ELSE DeclaredAt(Drop(b, 4 + Unpack(b)), pos - 4 - Unpack(b))

\* C23: the counters of the frame decoder stay within bounds, however the
\* stream is cut into reads: _to_read is never negative, and while a payload
\* is being accumulated it is the length the header declared less the bytes
\* in _data_buf.
C23_ToReadWithinBounds ==
    /\ to_read >= 0
    /\ header_complete
       => to_read = DeclaredAt(Stream(sent), bytes_read) - Len(data_buf)
====
